---------------------------- MODULE Spec2Model ----------------------------
(***************************************************************************)
(* Model of the 1:1 chat backend: the in-memory chat repository, the       *)
(* message service, the HTTP send handler, the connection hub and the      *)
(* per-connection reader and writer goroutines.                            *)
(*                                                                         *)
(* Every repository method runs under the repository's RWMutex, so each    *)
(* method is one atomic step; a service call that uses several methods is  *)
(* a sequence of such steps that other goroutines may interleave with.     *)
(***************************************************************************)
EXTENDS Integers, Sequences, FiniteSets, TLC

(* ------------------------------ bounds -------------------------------- *)

\* number of concurrent HTTP request goroutines
MaxProcs == 2
\* total number of POST /messages requests in a behaviour
MaxReqs == 2
\* largest value of the wall clock
MaxTime == 1
\* total number of websocket connections in a behaviour
MaxSessions == 2
\* capacity of a client's Send channel (256 in handleWebSocket)
SendCap == 1
\* capacity of the hub's Broadcast channel (256 in NewConnectionHub)
BroadcastCap == 1
\* width in bits of Go's int (64 in the build), two's complement
IntBits == 15
\* largest number of messages in the chat that is paged through
MaxMsgs == 4

(* ------------------------------ inputs -------------------------------- *)

Procs == 1..MaxProcs
\* request bodies of the sequential runs: every validation case over two
\* users, and a third user who talks with the first
UserIDs == {"", "a", "b"}
SeqPairs == (UserIDs \X UserIDs) \cup {<<"a", "c">>, <<"c", "a">>}
Contents == {"", "x", "y"}
Keys == {"", "k1"}
\* request bodies of the concurrent runs
ConcUserIDs == {"a", "b"}
ConcContents == {"x"}
ConcKeys == {"k1", "k2"}

StatusSent == "sent"
StatusDelivered == "delivered"
StatusRead == "read"

ErrInvalidUser == "invalid user"
ErrCannotMessageSelf == "cannot message self"
ErrEmptyMessage == "message content cannot be empty"
ErrMessageNotFound == "message not found"
ErrUserNotFound == "user not found"
NoErr == "nil"

\* the nil chat / message / client
Nil == 0

VARIABLES
    chats,      \* MemoryChatRepository.chats: chat id -> Chat
    messages,   \* MemoryChatRepository.messages: chat id -> list of Message
    now,        \* the wall clock read by time.Now()
    req,        \* one App.sendMessage goroutine per element of Procs
    nReq,       \* number of send requests accepted so far
    Clients,    \* ConnectionHub.Clients: user id -> session
    sessions,   \* every sockets.Client ever built by handleWebSocket
    Broadcast,  \* ConnectionHub.Broadcast, a buffered channel
    hub,        \* position of ConnectionHub.Run
    snap,       \* the repository as it was when the running request started
    users,      \* MemoryUserRepository.users: the ids of the users created
    list,       \* the last listing request and its response
    unregLog,   \* history: the clients the hub logged "Client unregistered" for
    arrived,    \* history: the hub events submitted and not yet received, oldest first
    statusLog   \* history: the last inbound frame or delivery and what UpdateMessageStatus returned

\* The history variables are written by the specifications that follow
\* them (SpecUnreg, SpecFifo, SpecRead); the actions that a history follows
\* leave it unconstrained and every other specification keeps it unchanged.

vars == <<chats, messages, now, req, nReq, Clients, sessions, Broadcast, hub, snap,
          users, list, unregLog, arrived, statusLog>>
hubVars == <<Clients, sessions, Broadcast, hub>>
listVars == <<users, list>>
histVars == <<unregLog, arrived, statusLog>>

(* --------------------------- small helpers ---------------------------- *)

Min(S) == CHOOSE x \in S : \A y \in S : x <= y

\* every message of the repository, over all chats
AllMessages == UNION {{messages[c][i] : i \in 1..Len(messages[c])} : c \in DOMAIN messages}

\* uuid.New(): an id no chat has
NewChatID == Cardinality(DOMAIN chats) + 1
\* uuid.New(): an id no message has
NewMessageID == Cardinality(AllMessages) + 1

(* ------------------------- MemoryChatRepository ----------------------- *)

\* Mutation: the lookup matches the pair in the given order only.
FindByParticipants_Ordered(user1ID, user2ID) ==
    {id \in DOMAIN chats :
        chats[id].Participant1 = user1ID /\ chats[id].Participant2 = user2ID}

\* The chats a range over the map may return first for the pair: Go's map
\* iteration order is unspecified, so with several matches any may be found.
\* The empty set is ErrChatNotFound.
FindByParticipants(user1ID, user2ID) ==
    {id \in DOMAIN chats :
        \/ chats[id].Participant1 = user1ID /\ chats[id].Participant2 = user2ID
        \/ chats[id].Participant1 = user2ID /\ chats[id].Participant2 = user1ID}

\* Mutation: the scan of the chat's list starts at its second message.
FindMessageByKey_SkipsFirst(chatID, idempotencyKey) ==
    IF chatID \notin DOMAIN messages THEN Nil
    ELSE LET hits == {i \in 2..Len(messages[chatID]) :
                         messages[chatID][i].IdempotencyKey = idempotencyKey}
         IN IF hits = {} THEN Nil ELSE messages[chatID][Min(hits)].ID

\* Mutation: the key is looked up in the lists of all chats.
FindMessageByKey_AnyChat(chatID, idempotencyKey) ==
    IF chatID \notin DOMAIN messages THEN Nil
    ELSE LET hits == {m \in AllMessages : m.IdempotencyKey = idempotencyKey}
         IN IF hits = {} THEN Nil ELSE Min({m.ID : m \in hits})

\* First message of the chat's list with the key; Nil for either error.
FindMessageByKey(chatID, idempotencyKey) ==
    IF chatID \notin DOMAIN messages THEN Nil
    ELSE LET hits == {i \in 1..Len(messages[chatID]) :
                         messages[chatID][i].IdempotencyKey = idempotencyKey}
         IN IF hits = {} THEN Nil ELSE messages[chatID][Min(hits)].ID

\* The message list of every chat after Create(chat) / the chats after it.
CreateChats(chat) ==
    chats @@ (NewChatID :> [chat EXCEPT !.CreatedAt = now, !.UpdatedAt = now])
\* Mutation: Create stores the chat without an empty message list.
CreateMessages_NoList == messages

\* the message lists after Create(chat), line 68
CreateMessages == messages @@ (NewChatID :> <<>>)

\* The repository after AddMessage(message); message.ID is empty on entry.
AddMessageChats(message) ==
    IF message.ChatID \in DOMAIN chats
    THEN [chats EXCEPT ![message.ChatID].UpdatedAt = now]
    ELSE chats
\* Mutation: the chat's list is assigned the new message alone instead of
\* being appended to.
AddMessageMessages_Replaces(message) ==
    LET m == [message EXCEPT !.ID = NewMessageID]
    IN IF message.ChatID \in DOMAIN messages
       THEN [messages EXCEPT ![message.ChatID] = <<m>>]
       ELSE messages @@ (message.ChatID :> <<m>>)
\* the message lists after AddMessage(message), line 172
AddMessageMessages(message) ==
    LET m == [message EXCEPT !.ID = NewMessageID]
    IN IF message.ChatID \in DOMAIN messages
       THEN [messages EXCEPT ![message.ChatID] = Append(@, m)]
       ELSE messages @@ (message.ChatID :> <<m>>)

\* Mutation: the status is set on every message of the chat that holds the
\* message.
UpdateMessageStatus_WholeChat(messageID, status) ==
    [c \in DOMAIN messages |->
        [i \in 1..Len(messages[c]) |->
            IF \E j \in 1..Len(messages[c]) : messages[c][j].ID = messageID
            THEN [messages[c][i] EXCEPT !.Status = status]
            ELSE messages[c][i]]]

\* UpdateMessageStatus: the message lists afterwards, and the error returned.
UpdateMessageStatus(messageID, status) ==
    [c \in DOMAIN messages |->
        [i \in 1..Len(messages[c]) |->
            IF messages[c][i].ID = messageID
            THEN [messages[c][i] EXCEPT !.Status = status]
            ELSE messages[c][i]]]
UpdateMessageStatusErr(messageID) ==
    IF \E m \in AllMessages : m.ID = messageID THEN NoErr ELSE ErrMessageNotFound

\* Go's int: its range, and the value an arithmetic result wraps to
MinInt == -(2 ^ (IntBits - 1))
MaxInt == 2 ^ (IntBits - 1) - 1
\* the page and page_size parameters tried: around zero, the default page
\* size, and the ends of the range of int
Pages == {MinInt, -1, 0, 1, 2, 3, 4, 2 ^ (IntBits - 2) + 1, MaxInt - 1, MaxInt}
PageSizes == {MinInt, -1, 0, 1, 2, 3, 4, 20, MaxInt - 1, MaxInt}
Wrap(x) == ((x - MinInt) % (2 ^ IntBits)) + MinInt

\* calculatePaginationBounds: <<start, end>>; the product and the sum are
\* int arithmetic and wrap around
calculatePaginationBounds(page, pageSize, total) ==
    LET p == IF page < 1 THEN 1 ELSE page
        ps == IF pageSize < 1 THEN 20 ELSE pageSize
        s0 == Wrap((p - 1) * ps)
        s1 == IF s0 < 0 THEN 0 ELSE s0
        start == IF s1 > total THEN total ELSE s1
        e0 == Wrap(start + ps)
        end == IF e0 > total THEN total ELSE e0
    IN <<start, end>>

\* FindChatMessages: the page, the total and whether the chat exists;
\* make([]*domain.Message, end-start) panics on a negative length
FindChatMessages(chatID, page, pageSize) ==
    IF chatID \notin DOMAIN messages
    THEN [data |-> <<>>, total |-> 0, found |-> FALSE, panic |-> FALSE]
    ELSE LET total == Len(messages[chatID])
             b == calculatePaginationBounds(page, pageSize, total)
         IN IF b[1] >= total
            THEN [data |-> <<>>, total |-> total, found |-> TRUE, panic |-> FALSE]
            ELSE IF b[2] < b[1]
            THEN [data |-> <<>>, total |-> 0, found |-> TRUE, panic |-> TRUE]
            ELSE [data |-> [i \in 1..(b[2] - b[1]) |-> messages[chatID][b[1] + i]],
                  total |-> total, found |-> TRUE, panic |-> FALSE]

\* Mutation: the chats are sorted oldest activity first.
FindUserChats_OldestFirst(userID, page, pageSize) ==
    LET mine == {c \in DOMAIN chats :
                    chats[c].Participant1 = userID \/ chats[c].Participant2 = userID}
        total == Cardinality(mine)
        sorted == {o \in [1..total -> mine] :
                      /\ \A i \in 1..total, j \in 1..total : o[i] = o[j] => i = j
                      /\ \A i \in 1..total, j \in 1..total :
                             i < j => chats[o[i]].UpdatedAt <= chats[o[j]].UpdatedAt}
        b == calculatePaginationBounds(page, pageSize, total)
    IN {IF b[1] >= total
        THEN [data |-> <<>>, total |-> total, panic |-> FALSE]
        ELSE IF b[2] < b[1]
        THEN [data |-> <<>>, total |-> 0, panic |-> TRUE]
        ELSE [data |-> [i \in 1..(b[2] - b[1]) |->
                           [ID |-> o[b[1] + i]] @@ chats[o[b[1] + i]]],
              total |-> total, panic |-> FALSE] : o \in sorted}

\* FindUserChats: the responses it may give. The chats of the user are
\* collected by a range over the map and sorted with sort.Slice, which is
\* not stable: chats with equal UpdatedAt come in any order. A slice
\* expression with end < start panics.
FindUserChats(userID, page, pageSize) ==
    LET mine == {c \in DOMAIN chats :
                    chats[c].Participant1 = userID \/ chats[c].Participant2 = userID}
        total == Cardinality(mine)
        sorted == {o \in [1..total -> mine] :
                      /\ \A i \in 1..total, j \in 1..total : o[i] = o[j] => i = j
                      /\ \A i \in 1..total, j \in 1..total :
                             i < j => chats[o[i]].UpdatedAt >= chats[o[j]].UpdatedAt}
        b == calculatePaginationBounds(page, pageSize, total)
    IN {IF b[1] >= total
        THEN [data |-> <<>>, total |-> total, panic |-> FALSE]
        ELSE IF b[2] < b[1]
        THEN [data |-> <<>>, total |-> 0, panic |-> TRUE]
        ELSE [data |-> [i \in 1..(b[2] - b[1]) |->
                           [ID |-> o[b[1] + i]] @@ chats[o[b[1] + i]]],
              total |-> total, panic |-> FALSE] : o \in sorted}

(* ---------------------------- MessageService -------------------------- *)

\* Mutation: the content check runs before the two checks on the ids.
Validate_ContentFirst(senderID, recipientID, content) ==
    IF content = "" THEN ErrEmptyMessage
    ELSE IF senderID = "" \/ recipientID = "" THEN ErrInvalidUser
    ELSE IF senderID = recipientID THEN ErrCannotMessageSelf
    ELSE NoErr

\* Mutation: the self-message check runs before the empty-id check.
Validate_SelfFirst(senderID, recipientID, content) ==
    IF senderID = recipientID THEN ErrCannotMessageSelf
    ELSE IF senderID = "" \/ recipientID = "" THEN ErrInvalidUser
    ELSE IF content = "" THEN ErrEmptyMessage
    ELSE NoErr

\* Lines 25-35 of SendMessage: the first failing check decides the error.
Validate(senderID, recipientID, content) ==
    IF senderID = "" \/ recipientID = "" THEN ErrInvalidUser
    ELSE IF senderID = recipientID THEN ErrCannotMessageSelf
    ELSE IF content = "" THEN ErrEmptyMessage
    ELSE NoErr

IdleReq == [pc |-> "idle", senderID |-> "", recipientID |-> "", content |-> "",
            idempotencyKey |-> "", chat |-> Nil, ts |-> 0, msg |-> Nil, err |-> NoErr]

\* Mutation: the content is checked only after the chat was found or
\* created, so an empty message between new partners leaves a chat behind.
SendMessage_Start_LateContentCheck(p, senderID, recipientID, content, idempotencyKey) ==
    /\ req[p].pc \in {"idle", "done"}
    /\ nReq < MaxReqs
    /\ nReq' = nReq + 1
    /\ LET e == Validate(senderID, recipientID, content)
           late == e = ErrEmptyMessage /\ FindByParticipants(senderID, recipientID) = {}
       IN /\ req' = [req EXCEPT ![p] =
                        [IdleReq EXCEPT !.pc = IF e = NoErr THEN "find" ELSE "done",
                                        !.senderID = senderID,
                                        !.recipientID = recipientID,
                                        !.content = content,
                                        !.idempotencyKey = idempotencyKey,
                                        !.err = e]]
          /\ chats' = IF late
                      THEN CreateChats([Participant1 |-> senderID,
                                        Participant2 |-> recipientID,
                                        CreatedAt |-> 0, UpdatedAt |-> 0])
                      ELSE chats
          /\ messages' = IF late THEN CreateMessages ELSE messages
    /\ UNCHANGED <<now, hubVars, listVars, histVars>>

\* Mutation: a request whose ids pass validation is refused unless both are
\* ids of users of the user repository.
SendMessage_Start_ChecksUsers(p, senderID, recipientID, content, idempotencyKey) ==
    /\ req[p].pc \in {"idle", "done"}
    /\ nReq < MaxReqs
    /\ nReq' = nReq + 1
    /\ LET v == Validate(senderID, recipientID, content)
           e == IF v = NoErr /\ ~({senderID, recipientID} \subseteq users)
                THEN ErrUserNotFound ELSE v
       IN req' = [req EXCEPT ![p] =
                     [IdleReq EXCEPT !.pc = IF e = NoErr THEN "find" ELSE "done",
                                     !.senderID = senderID,
                                     !.recipientID = recipientID,
                                     !.content = content,
                                     !.idempotencyKey = idempotencyKey,
                                     !.err = e]]
    /\ UNCHANGED <<chats, messages, now, hubVars, listVars, histVars>>

\* App.sendMessage decodes the request and calls SendMessage, which validates.
\* A rejected request is answered with 400 at once and nothing else happens.
SendMessage_Start(p, senderID, recipientID, content, idempotencyKey) ==
    /\ req[p].pc \in {"idle", "done"}
    /\ nReq < MaxReqs
    /\ nReq' = nReq + 1
    /\ LET e == Validate(senderID, recipientID, content)
       IN req' = [req EXCEPT ![p] =
                     [IdleReq EXCEPT !.pc = IF e = NoErr THEN "find" ELSE "done",
                                     !.senderID = senderID,
                                     !.recipientID = recipientID,
                                     !.content = content,
                                     !.idempotencyKey = idempotencyKey,
                                     !.err = e]]
    /\ UNCHANGED <<chats, messages, now, hubVars, listVars, histVars>>

\* s.chatRepo.FindByParticipants(senderID, recipientID), line 38
SendMessage_Find(p) ==
    /\ req[p].pc = "find"
    /\ LET found == FindByParticipants(req[p].senderID, req[p].recipientID)
       IN IF found = {}
          THEN req' = [req EXCEPT ![p].pc = "create"]
          ELSE \E c \in found : req' = [req EXCEPT ![p].pc = "key", ![p].chat = c]
    /\ UNCHANGED <<chats, messages, now, nReq, hubVars, snap, listVars, histVars>>

\* s.chatRepo.Create(chat), lines 42-48
SendMessage_Create(p) ==
    /\ req[p].pc = "create"
    /\ chats' = CreateChats([Participant1 |-> req[p].senderID,
                             Participant2 |-> req[p].recipientID,
                             CreatedAt |-> 0, UpdatedAt |-> 0])
    /\ messages' = CreateMessages
    /\ req' = [req EXCEPT ![p].pc = "key", ![p].chat = NewChatID]
    /\ UNCHANGED <<now, nReq, hubVars, snap, listVars, histVars>>

\* Mutation: a hit on the key stores the new content and touches the chat.
SendMessage_CheckKey_Overwrites(p) ==
    /\ req[p].pc = "key"
    /\ LET existing == IF req[p].idempotencyKey # ""
                       THEN FindMessageByKey(req[p].chat, req[p].idempotencyKey)
                       ELSE Nil
       IN IF existing # Nil
          THEN /\ req' = [req EXCEPT ![p].pc = "broadcast", ![p].msg = existing]
               /\ messages' = [messages EXCEPT ![req[p].chat] =
                                  [i \in 1..Len(@) |->
                                      IF @[i].ID = existing
                                      THEN [@[i] EXCEPT !.Content = req[p].content]
                                      ELSE @[i]]]
               /\ chats' = [chats EXCEPT ![req[p].chat].UpdatedAt = now]
          ELSE /\ req' = [req EXCEPT ![p].pc = "add", ![p].ts = now]
               /\ UNCHANGED <<chats, messages>>
    /\ UNCHANGED <<now, nReq, hubVars, snap, listVars, histVars>>

\* The idempotency check of lines 55-60 and, on a miss, the construction of
\* the message of lines 63-70 (time.Now() is read here).
SendMessage_CheckKey(p) ==
    /\ req[p].pc = "key"
    /\ LET existing == IF req[p].idempotencyKey # ""
                       THEN FindMessageByKey(req[p].chat, req[p].idempotencyKey)
                       ELSE Nil
       IN IF existing # Nil
          THEN req' = [req EXCEPT ![p].pc = "broadcast", ![p].msg = existing]
          ELSE req' = [req EXCEPT ![p].pc = "add", ![p].ts = now]
    /\ UNCHANGED <<chats, messages, now, nReq, hubVars, snap, listVars, histVars>>

\* s.chatRepo.AddMessage(message), line 72
SendMessage_Add(p) ==
    /\ req[p].pc = "add"
    /\ LET message == [ID |-> Nil, ChatID |-> req[p].chat,
                       SenderID |-> req[p].senderID, Content |-> req[p].content,
                       Status |-> StatusSent, Timestamp |-> req[p].ts,
                       IdempotencyKey |-> req[p].idempotencyKey]
       IN /\ chats' = AddMessageChats(message)
          /\ messages' = AddMessageMessages(message)
    /\ req' = [req EXCEPT ![p].pc = "broadcast", ![p].msg = NewMessageID]
    /\ UNCHANGED <<now, nReq, hubVars, snap, listVars, histVars>>

\* a.hub.BroadcastMessage(message, req.RecipientID): a send on the buffered
\* Broadcast channel, which blocks while the channel is full; then 201.
SendMessage_Broadcast(p) ==
    /\ req[p].pc = "broadcast"
    /\ Len(Broadcast) < BroadcastCap
    /\ Broadcast' = Append(Broadcast, [Message |-> req[p].msg,
                                       RecipientID |-> req[p].recipientID])
    /\ req' = [req EXCEPT ![p].pc = "done"]
    /\ UNCHANGED <<chats, messages, now, nReq, Clients, sessions, hub, snap, listVars, unregLog, statusLog>>

\* the wall clock advances
Tick ==
    /\ now < MaxTime
    /\ now' = now + 1
    /\ UNCHANGED <<chats, messages, req, nReq, hubVars, snap, listVars, histVars>>

(* --------------------------- ConnectionHub ---------------------------- *)

\* json.Marshal(broadcastMsg.Message): the object named by the struct's json
\* tags; idempotency_key is omitted when empty (omitempty).
Marshal(m) ==
    LET base == [id |-> m.ID, chat_id |-> m.ChatID, sender_id |-> m.SenderID,
                 content |-> m.Content, status |-> m.Status,
                 timestamp |-> m.Timestamp]
    IN IF m.IdempotencyKey = "" THEN base
       ELSE base @@ [idempotency_key |-> m.IdempotencyKey]

\* the stored message a *domain.Message points to
Deref(messageID) == CHOOSE m \in AllMessages : m.ID = messageID

\* the map without one key: delete(h.Clients, userID)
Delete(userID) == [u \in DOMAIN Clients \ {userID} |-> Clients[u]]

HubSelect == [pc |-> "select", msg |-> Nil]

\* no inbound frame was read and no delivery made
NoCall == [op |-> "none"]

\* the submitted events without the one the hub receives: the oldest of its
\* kind and subject
Received(e) ==
    LET i == Min({j \in 1..Len(arrived) : arrived[j] = e})
    IN [j \in 1..(Len(arrived) - 1) |-> IF j < i THEN arrived[j] ELSE arrived[j + 1]]

\* App.handleWebSocket up to the blocking send of RegisterClient: the
\* connection is upgraded and the Client built (lines 135-153).
HandleWebSocket(userID) ==
    /\ userID # ""
    /\ Len(sessions) < MaxSessions
    /\ sessions' = Append(sessions, [UserID |-> userID, Send |-> <<>>,
                                     closed |-> FALSE, conn |-> "open",
                                     handler |-> "register",
                                     writer |-> "no", reader |-> "no"])
    /\ UNCHANGED <<chats, messages, now, req, nReq, Clients, Broadcast, hub, snap, listVars, unregLog, statusLog>>

\* Mutation: the new client replaces the existing one without closing it.
Hub_Register_NoEvict(s) ==
    /\ hub.pc = "select"
    /\ sessions[s].handler = "register"
    /\ sessions' = [sessions EXCEPT ![s].handler = "started",
                                    ![s].writer = "run", ![s].reader = "run"]
    /\ Clients' = Delete(sessions[s].UserID) @@ (sessions[s].UserID :> s)
    /\ UNCHANGED <<chats, messages, now, req, nReq, Broadcast, hub, snap, listVars, unregLog, statusLog>>

\* Mutation: the existing client is closed but stays in the map.
Hub_Register_KeepsOld(s) ==
    /\ hub.pc = "select"
    /\ sessions[s].handler = "register"
    /\ LET userID == sessions[s].UserID
           exists == userID \in DOMAIN Clients
           started == [sessions EXCEPT ![s].handler = "started",
                                       ![s].writer = "run", ![s].reader = "run"]
       IN /\ sessions' = IF exists
                         THEN [started EXCEPT ![Clients[userID]].closed = TRUE]
                         ELSE started
          /\ Clients' = IF exists THEN Clients ELSE Clients @@ (userID :> s)
    /\ UNCHANGED <<chats, messages, now, req, nReq, Broadcast, hub, snap, listVars, unregLog, statusLog>>

\* case client := <-h.Register (lines 52-62), a rendezvous with the handler
\* blocked in RegisterClient, which then starts the two goroutines.
\* Closing a closed channel panics.
Hub_Register(s) ==
    /\ hub.pc = "select"
    /\ sessions[s].handler = "register"
    /\ LET userID == sessions[s].UserID
           exists == userID \in DOMAIN Clients
           existing == Clients[userID]
           started == [sessions EXCEPT ![s].handler = "started",
                                       ![s].writer = "run", ![s].reader = "run"]
       IN IF exists /\ sessions[existing].closed
          THEN /\ hub' = [pc |-> "panic", msg |-> Nil]
               /\ UNCHANGED <<Clients, sessions>>
          ELSE /\ sessions' = IF exists
                              THEN [started EXCEPT ![existing].closed = TRUE]
                              ELSE started
               /\ Clients' = Delete(userID) @@ (userID :> s)
               /\ UNCHANGED hub
    /\ UNCHANGED <<chats, messages, now, req, nReq, Broadcast, snap, listVars, unregLog, statusLog>>

\* Mutation: the mapping is looked up by user id alone, so the unregister of
\* an evicted client closes and removes whichever client the map holds.
Hub_Unregister_ByUserID(s) ==
    /\ hub.pc = "select"
    /\ sessions[s].reader = "unregister"
    /\ LET userID == sessions[s].UserID
           exists == userID \in DOMAIN Clients
           ended == [sessions EXCEPT ![s].reader = "done", ![s].conn = "closed"]
       IN /\ sessions' = IF exists
                         THEN [ended EXCEPT ![Clients[userID]].closed = TRUE]
                         ELSE ended
          /\ Clients' = IF exists THEN Delete(userID) ELSE Clients
          /\ UNCHANGED hub
    /\ UNCHANGED <<chats, messages, now, req, nReq, Broadcast, snap, listVars, statusLog>>

\* case client := <-h.Unregister (lines 64-71), a rendezvous with the reader
\* blocked in UnregisterClient, which then closes its connection and ends.
Hub_Unregister(s) ==
    /\ hub.pc = "select"
    /\ sessions[s].reader = "unregister"
    /\ LET userID == sessions[s].UserID
           current == userID \in DOMAIN Clients /\ Clients[userID] = s
           ended == [sessions EXCEPT ![s].reader = "done", ![s].conn = "closed"]
       IN IF current /\ sessions[s].closed
          THEN /\ hub' = [pc |-> "panic", msg |-> Nil]
               /\ UNCHANGED <<Clients, sessions>>
          ELSE /\ sessions' = IF current
                              THEN [ended EXCEPT ![s].closed = TRUE]
                              ELSE ended
               /\ Clients' = IF current THEN Delete(userID) ELSE Clients
               /\ UNCHANGED hub
    /\ UNCHANGED <<chats, messages, now, req, nReq, Broadcast, snap, listVars, statusLog>>

\* Mutation: the status update is outside the check for a connected client,
\* so a message whose recipient is absent is marked delivered.
Hub_Broadcast_AbsentMarksDelivered ==
    /\ hub.pc = "select"
    /\ Broadcast # <<>>
    /\ Broadcast' = Tail(Broadcast)
    /\ LET broadcastMsg == Head(Broadcast)
           exists == broadcastMsg.RecipientID \in DOMAIN Clients
           client == Clients[broadcastMsg.RecipientID]
           messageJSON == Marshal(Deref(broadcastMsg.Message))
       IN IF ~exists
          THEN /\ hub' = [pc |-> "status", msg |-> broadcastMsg.Message]
               /\ UNCHANGED <<Clients, sessions>>
          ELSE IF sessions[client].closed
          THEN /\ hub' = [pc |-> "panic", msg |-> Nil]
               /\ UNCHANGED <<Clients, sessions>>
          ELSE IF Len(sessions[client].Send) < SendCap
          THEN /\ sessions' = [sessions EXCEPT ![client].Send = Append(@, messageJSON)]
               /\ hub' = [pc |-> "status", msg |-> broadcastMsg.Message]
               /\ UNCHANGED Clients
          ELSE /\ sessions' = [sessions EXCEPT ![client].closed = TRUE]
               /\ Clients' = Delete(broadcastMsg.RecipientID)
               /\ UNCHANGED hub
    /\ UNCHANGED <<chats, messages, now, req, nReq, snap, listVars, unregLog, statusLog>>

\* Mutation: the payload is queued but the status update is left out.
Hub_Broadcast_EnqueueOnly ==
    /\ hub.pc = "select"
    /\ Broadcast # <<>>
    /\ Broadcast' = Tail(Broadcast)
    /\ LET broadcastMsg == Head(Broadcast)
           exists == broadcastMsg.RecipientID \in DOMAIN Clients
           client == Clients[broadcastMsg.RecipientID]
           messageJSON == Marshal(Deref(broadcastMsg.Message))
       IN IF ~exists
          THEN UNCHANGED <<Clients, sessions, hub>>
          ELSE IF sessions[client].closed
          THEN /\ hub' = [pc |-> "panic", msg |-> Nil]
               /\ UNCHANGED <<Clients, sessions>>
          ELSE IF Len(sessions[client].Send) < SendCap
          THEN /\ sessions' = [sessions EXCEPT ![client].Send = Append(@, messageJSON)]
               /\ UNCHANGED <<Clients, hub>>
          ELSE /\ sessions' = [sessions EXCEPT ![client].closed = TRUE]
               /\ Clients' = Delete(broadcastMsg.RecipientID)
               /\ UNCHANGED hub
    /\ UNCHANGED <<chats, messages, now, req, nReq, snap, listVars, unregLog, statusLog>>

\* Mutation: a plain send instead of the select with a default case: the
\* hub waits for room in the client's Send channel.
Hub_Broadcast_BlocksOnFull ==
    /\ hub.pc = "select"
    /\ Broadcast # <<>>
    /\ Broadcast' = Tail(Broadcast)
    /\ LET to == Head(Broadcast).RecipientID
       IN (to \in DOMAIN Clients /\ ~sessions[Clients[to]].closed)
          => Len(sessions[Clients[to]].Send) < SendCap
    /\ LET broadcastMsg == Head(Broadcast)
           exists == broadcastMsg.RecipientID \in DOMAIN Clients
           client == Clients[broadcastMsg.RecipientID]
           messageJSON == Marshal(Deref(broadcastMsg.Message))
       IN IF ~exists
          THEN UNCHANGED <<Clients, sessions, hub>>
          ELSE IF sessions[client].closed
          THEN /\ hub' = [pc |-> "panic", msg |-> Nil]
               /\ UNCHANGED <<Clients, sessions>>
          ELSE IF Len(sessions[client].Send) < SendCap
          THEN /\ sessions' = [sessions EXCEPT ![client].Send = Append(@, messageJSON)]
               /\ hub' = [pc |-> "status", msg |-> broadcastMsg.Message]
               /\ UNCHANGED Clients
          ELSE /\ sessions' = [sessions EXCEPT ![client].closed = TRUE]
               /\ Clients' = Delete(broadcastMsg.RecipientID)
               /\ UNCHANGED hub
    /\ UNCHANGED <<chats, messages, now, req, nReq, snap, listVars, unregLog, statusLog>>

\* Mutation: to evict the client of a full Send channel the hub takes the
\* write lock of h.Mutex while it holds the read lock, and waits for itself.
Hub_Broadcast_LocksToEvict ==
    /\ hub.pc = "select"
    /\ Broadcast # <<>>
    /\ Broadcast' = Tail(Broadcast)
    /\ LET broadcastMsg == Head(Broadcast)
           exists == broadcastMsg.RecipientID \in DOMAIN Clients
           client == Clients[broadcastMsg.RecipientID]
           messageJSON == Marshal(Deref(broadcastMsg.Message))
       IN IF ~exists
          THEN UNCHANGED <<Clients, sessions, hub>>
          ELSE IF sessions[client].closed
          THEN /\ hub' = [pc |-> "panic", msg |-> Nil]
               /\ UNCHANGED <<Clients, sessions>>
          ELSE IF Len(sessions[client].Send) < SendCap
          THEN /\ sessions' = [sessions EXCEPT ![client].Send = Append(@, messageJSON)]
               /\ hub' = [pc |-> "status", msg |-> broadcastMsg.Message]
               /\ UNCHANGED Clients
          ELSE /\ hub' = [pc |-> "lock", msg |-> Nil]
               /\ UNCHANGED <<Clients, sessions>>
    /\ UNCHANGED <<chats, messages, now, req, nReq, snap, listVars, unregLog, statusLog>>

\* Mutation: a full Send channel is closed but its client stays in the map.
Hub_Broadcast_EvictKeepsMapping ==
    /\ hub.pc = "select"
    /\ Broadcast # <<>>
    /\ Broadcast' = Tail(Broadcast)
    /\ LET broadcastMsg == Head(Broadcast)
           exists == broadcastMsg.RecipientID \in DOMAIN Clients
           client == Clients[broadcastMsg.RecipientID]
           messageJSON == Marshal(Deref(broadcastMsg.Message))
       IN IF ~exists
          THEN UNCHANGED <<Clients, sessions, hub>>
          ELSE IF sessions[client].closed
          THEN /\ hub' = [pc |-> "panic", msg |-> Nil]
               /\ UNCHANGED <<Clients, sessions>>
          ELSE IF Len(sessions[client].Send) < SendCap
          THEN /\ sessions' = [sessions EXCEPT ![client].Send = Append(@, messageJSON)]
               /\ hub' = [pc |-> "status", msg |-> broadcastMsg.Message]
               /\ UNCHANGED Clients
          ELSE /\ sessions' = [sessions EXCEPT ![client].closed = TRUE]
               /\ UNCHANGED <<Clients, hub>>
    /\ UNCHANGED <<chats, messages, now, req, nReq, snap, listVars, unregLog, statusLog>>

\* case broadcastMsg := <-h.Broadcast, and broadcastMessage up to the
\* select of lines 92-99. A send on a closed channel panics.
Hub_Broadcast ==
    /\ hub.pc = "select"
    /\ Broadcast # <<>>
    /\ Broadcast' = Tail(Broadcast)
    /\ LET broadcastMsg == Head(Broadcast)
           exists == broadcastMsg.RecipientID \in DOMAIN Clients
           client == Clients[broadcastMsg.RecipientID]
           messageJSON == Marshal(Deref(broadcastMsg.Message))
       IN IF ~exists
          THEN UNCHANGED <<Clients, sessions, hub>>
          ELSE IF sessions[client].closed
          THEN /\ hub' = [pc |-> "panic", msg |-> Nil]
               /\ UNCHANGED <<Clients, sessions>>
          ELSE IF Len(sessions[client].Send) < SendCap
          THEN /\ sessions' = [sessions EXCEPT ![client].Send = Append(@, messageJSON)]
               /\ hub' = [pc |-> "status", msg |-> broadcastMsg.Message]
               /\ UNCHANGED Clients
          ELSE /\ sessions' = [sessions EXCEPT ![client].closed = TRUE]
               /\ Clients' = Delete(broadcastMsg.RecipientID)
               /\ UNCHANGED hub
    /\ UNCHANGED <<chats, messages, now, req, nReq, snap, listVars, unregLog, statusLog>>

\* MessageService.UpdateMessageStatus: hands the update to the repository.
MessageSvc_UpdateMessageStatus(messageID, status) ==
    UpdateMessageStatus(messageID, status)

\* line 95: the hub, still inside broadcastMessage, marks the message
\* delivered; the repository's lock makes this a step of its own.
Hub_Delivered ==
    /\ hub.pc = "status"
    /\ messages' = MessageSvc_UpdateMessageStatus(hub.msg, StatusDelivered)
    /\ hub' = HubSelect
    /\ UNCHANGED <<chats, now, req, nReq, Clients, sessions, Broadcast, snap, listVars, unregLog, arrived>>

\* h.Mutex as the hub goroutine holds it between two of its steps:
\* broadcastMessage takes the read lock on entry and gives it back in the
\* deferred RUnlock, so it is held across the call of line 95; the Register
\* and Unregister cases lock and unlock within their step.
Mutex == IF hub.pc = "status" THEN "RLock" ELSE "unlocked"

(* ------------------------- Client goroutines -------------------------- *)

\* StartWriter, case message, ok := <-c.Send with a payload (lines 143-153):
\* the write succeeds, or fails and the deferred Conn.Close() runs.
Writer_Send(s, ok) ==
    /\ sessions[s].writer = "run"
    /\ sessions[s].Send # <<>>
    /\ ok => sessions[s].conn = "open"
    /\ sessions' = IF ok
                   THEN [sessions EXCEPT ![s].Send = Tail(@)]
                   ELSE [sessions EXCEPT ![s].Send = Tail(@),
                                         ![s].writer = "done", ![s].conn = "closed"]
    /\ UNCHANGED <<chats, messages, now, req, nReq, Clients, Broadcast, hub, snap, listVars, histVars>>

\* Mutation: the writer returns on a closed channel without the deferred
\* Conn.Close().
Writer_Closed_KeepsConn(s) ==
    /\ sessions[s].writer = "run"
    /\ sessions[s].Send = <<>>
    /\ sessions[s].closed
    /\ sessions' = [sessions EXCEPT ![s].writer = "done"]
    /\ UNCHANGED <<chats, messages, now, req, nReq, Clients, Broadcast, hub, snap, listVars, histVars>>

\* StartWriter, the receive reports the channel closed and drained
\* (lines 145-149): a close frame is written, the connection closed.
Writer_Closed(s) ==
    /\ sessions[s].writer = "run"
    /\ sessions[s].Send = <<>>
    /\ sessions[s].closed
    /\ sessions' = [sessions EXCEPT ![s].writer = "done", ![s].conn = "closed"]
    /\ UNCHANGED <<chats, messages, now, req, nReq, Clients, Broadcast, hub, snap, listVars, histVars>>

\* StartWriter, case <-ticker.C (lines 154-159): a ping that fails ends the
\* writer; one that succeeds changes nothing.
Writer_PingFailed(s) ==
    /\ sessions[s].writer = "run"
    /\ sessions' = [sessions EXCEPT ![s].writer = "done", ![s].conn = "closed"]
    /\ UNCHANGED <<chats, messages, now, req, nReq, Clients, Broadcast, hub, snap, listVars, histVars>>

\* An inbound frame: bytes that parse as a JSON object with the two fields,
\* or bytes that do not parse.
MarkRead(messageID) == [json |-> TRUE, type |-> "mark_read", message_id |-> messageID]
Frames == {MarkRead(i) : i \in 1..(MaxReqs + 1)} \cup
          {[json |-> TRUE, type |-> "typing", message_id |-> 1],
           [json |-> FALSE, type |-> "", message_id |-> Nil]}

\* json.Unmarshal into the anonymous struct of lines 180-183
Unmarshal(frame) ==
    IF frame.json
    THEN [err |-> FALSE, Type |-> frame.type, MessageID |-> frame.message_id]
    ELSE [err |-> TRUE, Type |-> "", MessageID |-> Nil]

\* Mutation: the type of the envelope is not looked at.
Reader_Frame_AnyType(s, frame) ==
    /\ sessions[s].reader = "run"
    /\ sessions[s].conn = "open"
    /\ LET msg == Unmarshal(frame)
       IN messages' = IF ~msg.err
                      THEN MessageSvc_UpdateMessageStatus(msg.MessageID, StatusRead)
                      ELSE messages
    /\ UNCHANGED <<chats, now, req, nReq, Clients, sessions, Broadcast, hub, snap, listVars, unregLog, arrived>>

\* StartReader, one inbound frame (lines 171-189)
Reader_Frame(s, frame) ==
    /\ sessions[s].reader = "run"
    /\ sessions[s].conn = "open"
    /\ LET msg == Unmarshal(frame)
       IN messages' = IF ~msg.err /\ msg.Type = "mark_read"
                      THEN MessageSvc_UpdateMessageStatus(msg.MessageID, StatusRead)
                      ELSE messages
    /\ UNCHANGED <<chats, now, req, nReq, Clients, sessions, Broadcast, hub, snap, listVars, unregLog, arrived>>

\* Mutation: the reader ends without the deferred UnregisterClient.
Reader_Failed_NoUnregister(s) ==
    /\ sessions[s].reader = "run"
    /\ sessions' = [sessions EXCEPT ![s].reader = "done", ![s].conn = "closed"]
    /\ UNCHANGED <<chats, messages, now, req, nReq, Clients, Broadcast, hub, snap, listVars, unregLog, statusLog>>

\* StartReader, ReadMessage fails (lines 171-177): the peer went away or the
\* connection was closed; the deferred UnregisterClient then blocks on the
\* unbuffered channel until the hub receives.
Reader_Failed(s) ==
    /\ sessions[s].reader = "run"
    /\ sessions' = [sessions EXCEPT ![s].reader = "unregister"]
    /\ UNCHANGED <<chats, messages, now, req, nReq, Clients, Broadcast, hub, snap, listVars, unregLog, statusLog>>

(* ------------------------- listings and users ------------------------ *)

\* no listing request was made
NoList == [op |-> "none"]

\* MessageService.GetChatMessages and GetUserChats: hand the request to the
\* repository and its answer back.
MessageSvc_GetChatMessages(chatID, page, pageSize) ==
    FindChatMessages(chatID, page, pageSize)
MessageSvc_GetUserChats(userID, page, pageSize) ==
    FindUserChats(userID, page, pageSize)

\* App.listChatMessages: page and page_size are read with strconv.Atoi
ListMessages(chatID, page, pageSize) ==
    /\ list' = [op |-> "messages", id |-> chatID, page |-> page, pageSize |-> pageSize,
                result |-> MessageSvc_GetChatMessages(chatID, page, pageSize)]
    /\ UNCHANGED <<chats, messages, now, req, nReq, hubVars, snap, users, histVars>>

\* App.listUserChats: an empty user_id is answered 400
ListChats(userID, page, pageSize) ==
    /\ userID # ""
    /\ \E r \in MessageSvc_GetUserChats(userID, page, pageSize) :
           list' = [op |-> "chats", id |-> userID, page |-> page, pageSize |-> pageSize,
                    result |-> r]
    /\ UNCHANGED <<chats, messages, now, req, nReq, hubVars, snap, users, histVars>>

\* App.createUser and MemoryUserRepository.Create: a user with a new id
CreateUser(id) ==
    /\ id \notin users
    /\ users' = users \cup {id}
    /\ UNCHANGED <<chats, messages, now, req, nReq, hubVars, snap, list, histVars>>

(* --------------------------- specifications --------------------------- *)

Init ==
    /\ chats = <<>>
    /\ messages = <<>>
    /\ now = 0
    /\ req = [p \in Procs |-> IdleReq]
    /\ nReq = 0
    /\ Clients = <<>>
    /\ sessions = <<>>
    /\ Broadcast = <<>>
    /\ hub = HubSelect
    /\ snap = [chats |-> <<>>, messages |-> <<>>]
    /\ users = {}
    /\ list = NoList
    /\ unregLog = {}
    /\ arrived = <<>>
    /\ statusLog = NoCall

\* a POST /messages request while others may be running
Request(p) ==
    /\ \E s \in ConcUserIDs, r \in ConcUserIDs, c \in ConcContents, k \in ConcKeys :
           SendMessage_Start(p, s, r, c, k)
    /\ UNCHANGED snap

\* a POST /messages request sent after the previous one was answered and
\* the hub has taken its broadcast
SeqRequest ==
    /\ \A q \in Procs : req[q].pc \in {"idle", "done"}
    /\ Broadcast = <<>>
    /\ \E sr \in SeqPairs, c \in Contents, k \in Keys :
           SendMessage_Start(1, sr[1], sr[2], c, k)
    /\ snap' = [chats |-> chats, messages |-> messages]

\* a POST /messages request while websocket clients are connected
HubRequest ==
    /\ \E s \in ConcUserIDs, k \in Keys :
           \E r \in ConcUserIDs \ {s} : SendMessage_Start(1, s, r, "x", k)
    /\ UNCHANGED snap

SendSteps(p) ==
    \/ SendMessage_Find(p)
    \/ SendMessage_Create(p)
    \/ SendMessage_CheckKey(p)
    \/ SendMessage_Add(p)
    \/ SendMessage_Broadcast(p) /\ UNCHANGED arrived

\* Concurrent requests over the HTTP API with no websocket client connected.
NextSend ==
    \/ \E p \in Procs : Request(p)
    \/ \E p \in Procs : SendSteps(p)
    \/ Hub_Broadcast /\ UNCHANGED arrived
    \/ Tick

SpecSend == Init /\ [][NextSend]_vars

\* One request at a time over the HTTP API with no websocket client
\* connected, as the end-to-end tests do.
NextSeq ==
    \/ SeqRequest
    \/ \E p \in Procs : SendSteps(p)
    \/ Hub_Broadcast /\ UNCHANGED arrived
    \/ Tick

SpecSeq == Init /\ [][NextSeq]_vars

\* The whole system: requests, websocket connections, the hub.
Next ==
    \/ HubRequest
    \/ \E p \in Procs : SendSteps(p)
    \/ \E u \in ConcUserIDs : HandleWebSocket(u) /\ UNCHANGED arrived
    \/ \E s \in DOMAIN sessions : Hub_Register(s) /\ UNCHANGED arrived
    \/ \E s \in DOMAIN sessions : Hub_Unregister(s) /\ UNCHANGED histVars
    \/ Hub_Broadcast /\ UNCHANGED arrived
    \/ Hub_Delivered /\ UNCHANGED statusLog
    \/ \E s \in DOMAIN sessions, ok \in BOOLEAN : Writer_Send(s, ok)
    \/ \E s \in DOMAIN sessions : Writer_Closed(s)
    \/ \E s \in DOMAIN sessions : Writer_PingFailed(s)
    \/ \E s \in DOMAIN sessions, f \in Frames : Reader_Frame(s, f) /\ UNCHANGED statusLog
    \/ \E s \in DOMAIN sessions : Reader_Failed(s) /\ UNCHANGED arrived

Spec == Init /\ [][Next]_vars

\* a POST /messages request from a to b without a key
OneWayRequest ==
    /\ SendMessage_Start(1, "a", "b", "x", "")
    /\ UNCHANGED snap

\* The hub with its websocket clients, fed by requests in one direction.
\* Inbound frames, which write message statuses only, are part of Next.
NextHub ==
    \/ OneWayRequest
    \/ \E p \in Procs : SendSteps(p)
    \/ \E u \in ConcUserIDs : HandleWebSocket(u) /\ UNCHANGED arrived
    \/ \E s \in DOMAIN sessions : Hub_Register(s) /\ UNCHANGED arrived
    \/ \E s \in DOMAIN sessions : Hub_Unregister(s) /\ UNCHANGED histVars
    \/ Hub_Broadcast /\ UNCHANGED arrived
    \/ Hub_Delivered /\ UNCHANGED statusLog
    \/ \E s \in DOMAIN sessions, ok \in BOOLEAN : Writer_Send(s, ok)
    \/ \E s \in DOMAIN sessions : Writer_Closed(s)
    \/ \E s \in DOMAIN sessions : Writer_PingFailed(s)
    \/ \E s \in DOMAIN sessions : Reader_Failed(s) /\ UNCHANGED arrived

SpecHub == Init /\ [][NextHub]_vars

\* The hub and the websocket clients of one user, the recipient of every
\* request, with the log of line 69 kept in unregLog.
NextUnreg ==
    \/ OneWayRequest
    \/ \E p \in Procs : SendSteps(p)
    \/ HandleWebSocket("b") /\ UNCHANGED arrived
    \/ \E s \in DOMAIN sessions : Hub_Register(s) /\ UNCHANGED arrived
    \/ \E s \in DOMAIN sessions :
           /\ Hub_Unregister(s)
           /\ unregLog' = IF Clients' # Clients THEN unregLog \cup {s} ELSE unregLog
           /\ UNCHANGED arrived
    \/ Hub_Broadcast /\ UNCHANGED arrived
    \/ Hub_Delivered /\ UNCHANGED statusLog
    \/ \E s \in DOMAIN sessions, ok \in BOOLEAN : Writer_Send(s, ok)
    \/ \E s \in DOMAIN sessions : Writer_Closed(s)
    \/ \E s \in DOMAIN sessions : Writer_PingFailed(s)
    \/ \E s \in DOMAIN sessions : Reader_Failed(s) /\ UNCHANGED arrived

SpecUnreg == Init /\ [][NextUnreg]_vars

\* The hub, its websocket clients and requests in one direction, with the
\* events submitted to the hub's three channels kept in arrived in the order
\* of their submission: a send on Broadcast, and the arrival of a handler or
\* a reader at its send on the unbuffered Register or Unregister channel.
\* The senders blocked on one channel are served oldest first, as the runtime
\* queues them; the select of Run chooses among the channels that are ready.
OldestOf(kind, s) ==
    arrived[Min({j \in 1..Len(arrived) : arrived[j][1] = kind})] = <<kind, s>>

NextFifo ==
    \/ OneWayRequest
    \/ \E p \in Procs : SendMessage_Find(p)
    \/ \E p \in Procs : SendMessage_Create(p)
    \/ \E p \in Procs : SendMessage_CheckKey(p)
    \/ \E p \in Procs : SendMessage_Add(p)
    \/ \E p \in Procs :
           /\ SendMessage_Broadcast(p)
           /\ arrived' = Append(arrived, <<"broadcast", req[p].msg>>)
    \/ \E u \in ConcUserIDs :
           /\ HandleWebSocket(u)
           /\ arrived' = Append(arrived, <<"register", Len(sessions) + 1>>)
    \/ \E s \in DOMAIN sessions :
           /\ sessions[s].handler = "register" /\ OldestOf("register", s)
           /\ Hub_Register(s)
           /\ arrived' = Received(<<"register", s>>)
    \/ \E s \in DOMAIN sessions :
           /\ sessions[s].reader = "unregister" /\ OldestOf("unregister", s)
           /\ Hub_Unregister(s)
           /\ arrived' = Received(<<"unregister", s>>)
           /\ UNCHANGED unregLog
    \/ /\ Hub_Broadcast
       /\ arrived' = Received(<<"broadcast", Head(Broadcast).Message>>)
    \/ Hub_Delivered /\ UNCHANGED statusLog
    \/ \E s \in DOMAIN sessions, ok \in BOOLEAN : Writer_Send(s, ok)
    \/ \E s \in DOMAIN sessions : Writer_Closed(s)
    \/ \E s \in DOMAIN sessions : Writer_PingFailed(s)
    \/ \E s \in DOMAIN sessions :
           /\ Reader_Failed(s)
           /\ arrived' = Append(arrived, <<"unregister", s>>)

SpecFifo == Init /\ [][NextFifo]_vars

\* the i-th message of a chat between a and b that a filled
StoredMessage(i) ==
    [ID |-> i, ChatID |-> 1, SenderID |-> "a", Content |-> "x",
     Status |-> StatusSent, Timestamp |-> 0, IdempotencyKey |-> ""]

\* the state after a sent up to MaxMsgs messages to b
InitPage ==
    /\ chats = (1 :> [Participant1 |-> "a", Participant2 |-> "b",
                      CreatedAt |-> 0, UpdatedAt |-> 0])
    /\ \E n \in 0..MaxMsgs : messages = (1 :> [i \in 1..n |-> StoredMessage(i)])
    /\ now = 0
    /\ req = [p \in Procs |-> IdleReq]
    /\ nReq = 0
    /\ Clients = <<>>
    /\ sessions = <<>>
    /\ Broadcast = <<>>
    /\ hub = HubSelect
    /\ snap = [chats |-> <<>>, messages |-> <<>>]
    /\ users = {}
    /\ list = NoList
    /\ unregLog = {}
    /\ arrived = <<>>
    /\ statusLog = NoCall

\* GET /chats/{chatId}/messages for the chat and for a chat that does not
\* exist
NextPage ==
    \E chatID \in {1, 2}, page \in Pages, pageSize \in PageSizes :
        ListMessages(chatID, page, pageSize)

SpecPage == InitPage /\ [][NextPage]_vars

\* the ids used by the listings: users created through POST /users or not
ListUserIDs == {"a", "b", "c"}
ListPairs == {<<"a", "b">>, <<"b", "a">>, <<"c", "a">>}

\* a POST /messages request sent after the previous one was answered
ListRequest ==
    /\ \A q \in Procs : req[q].pc \in {"idle", "done"}
    /\ Broadcast = <<>>
    /\ \E sr \in ListPairs : SendMessage_Start(1, sr[1], sr[2], "x", "")
    /\ UNCHANGED snap

\* One send at a time and GET /chats listings at any moment, with no
\* websocket client connected.
NextList ==
    \/ ListRequest
    \/ \E p \in Procs : SendSteps(p)
    \/ Hub_Broadcast /\ UNCHANGED arrived
    \/ Tick
    \/ \E userID \in {"a", "b"}, page \in 1..2, pageSize \in 0..1 :
           ListChats(userID, page, pageSize)

SpecList == Init /\ [][NextList]_vars

\* One send at a time, users being created through POST /users (c never
\* is), and listings of all the chats of a user.
NextUsers ==
    \/ ListRequest
    \/ \E p \in Procs : SendSteps(p)
    \/ Hub_Broadcast /\ UNCHANGED arrived
    \/ \E id \in {"a", "b"} : CreateUser(id)
    \/ \E userID \in ListUserIDs : ListChats(userID, 1, 0)

SpecUsers == Init /\ [][NextUsers]_vars

\* a step of the goroutine that runs ConnectionHub.Run
HubStep ==
    \/ \E s \in DOMAIN sessions : Hub_Register(s) /\ UNCHANGED arrived
    \/ \E s \in DOMAIN sessions : Hub_Unregister(s) /\ UNCHANGED histVars
    \/ Hub_Broadcast /\ UNCHANGED arrived
    \/ Hub_Delivered /\ UNCHANGED statusLog

\* The hub, the websocket clients of the recipient of every request, their
\* readers' exits and their writers' sends, with a hub goroutine that is
\* scheduled as long as it can run. The writer's other exits are left out:
\* they change the writer's position and the connection only, which neither
\* the hub nor the exit of the reader reads.
NextLive ==
    \/ OneWayRequest
    \/ \E p \in Procs : SendSteps(p)
    \/ HandleWebSocket("b") /\ UNCHANGED arrived
    \/ HubStep
    \/ \E s \in DOMAIN sessions, ok \in BOOLEAN : Writer_Send(s, ok)
    \/ \E s \in DOMAIN sessions : Reader_Failed(s) /\ UNCHANGED arrived

SpecLive == Init /\ [][NextLive]_vars /\ WF_vars(HubStep)

\* a POST /messages request from a to b, with or without a key, sent after
\* the previous one was answered and the hub has taken its broadcast
KeyedRequest ==
    /\ Broadcast = <<>>
    /\ \E k \in Keys : SendMessage_Start(1, "a", "b", "x", k)
    /\ UNCHANGED snap

\* what the hub's call of line 95 leaves in statusLog: the arguments of
\* UpdateMessageStatus and the error it returns, which the hub discards
DeliveredLog ==
    [op |-> "delivered", id |-> hub.msg, status |-> StatusDelivered,
     err |-> UpdateMessageStatusErr(hub.msg)]

\* what a reader's frame leaves in statusLog: the frame, whether
\* UpdateMessageStatus was called (lines 185-187) and the error it returned,
\* which the reader discards
FrameLog(frame) ==
    LET msg == Unmarshal(frame)
        called == ~msg.err /\ msg.Type = "mark_read"
    IN [op |-> "frame", frame |-> frame, called |-> called,
        id |-> msg.MessageID, status |-> StatusRead,
        err |-> IF called THEN UpdateMessageStatusErr(msg.MessageID) ELSE NoErr]

\* the frames tried: a read receipt for the first message stored, one for
\* an id that no message ever has, a frame of another type and bytes that
\* are no JSON object
ReadFrames == {MarkRead(1), MarkRead(MaxReqs + 1),
               [json |-> TRUE, type |-> "typing", message_id |-> 1],
               [json |-> FALSE, type |-> "", message_id |-> Nil]}

\* The hub, the websocket clients of the recipient of every request and the
\* frames they send, with every status update and every frame kept in
\* statusLog.
NextRead ==
    \/ KeyedRequest
    \/ \E p \in Procs : SendSteps(p)
    \/ HandleWebSocket("b") /\ UNCHANGED arrived
    \/ \E s \in DOMAIN sessions : Hub_Register(s) /\ UNCHANGED arrived
    \/ Hub_Broadcast /\ UNCHANGED arrived
    \/ Hub_Delivered /\ statusLog' = DeliveredLog
    \/ \E s \in DOMAIN sessions, f \in ReadFrames :
           Reader_Frame(s, f) /\ statusLog' = FrameLog(f)

SpecRead == Init /\ [][NextRead]_vars

\* Every kind of operation on stored messages: sends with or without a
\* key, resends with the key, broadcasts and deliveries to the recipient's
\* websocket clients, read receipts, and listings of the recipient's chats
\* and of the first message of the first chat.
NextKeep ==
    \/ KeyedRequest
    \/ \E p \in Procs : SendSteps(p)
    \/ HandleWebSocket("b") /\ UNCHANGED arrived
    \/ \E s \in DOMAIN sessions : Hub_Register(s) /\ UNCHANGED arrived
    \/ Hub_Broadcast /\ UNCHANGED arrived
    \/ Hub_Delivered /\ UNCHANGED statusLog
    \/ \E s \in DOMAIN sessions, f \in ReadFrames :
           Reader_Frame(s, f) /\ UNCHANGED statusLog
    \/ ListChats("b", 1, 0)
    \/ ListMessages(1, 1, 1)

SpecKeep == Init /\ [][NextKeep]_vars

\* a step of the writer goroutine of session s on its Send channel
WriterStep(s) ==
    /\ s \in DOMAIN sessions
    /\ \/ \E ok \in BOOLEAN : Writer_Send(s, ok)
       \/ Writer_Closed(s)

\* ReadMessage of session s returns the error of a closed connection
ReaderClosed(s) ==
    /\ s \in DOMAIN sessions
    /\ sessions[s].conn = "closed"
    /\ Reader_Failed(s) /\ UNCHANGED arrived

\* The hub and the websocket clients of the recipient of every request,
\* one request at a time, with every goroutine scheduled as long as it can
\* run: the hub, each writer on its Send channel, and each reader whose
\* connection was closed. A peer that goes away (a read that fails on an
\* open connection) may or may not happen. A ping that fails is left out:
\* it ends the writer and closes the connection, which the writer's fair
\* steps on a closed channel do as well.
NextDone ==
    \/ Broadcast = <<>> /\ OneWayRequest
    \/ \E p \in Procs : SendSteps(p)
    \/ HandleWebSocket("b") /\ UNCHANGED arrived
    \/ HubStep
    \/ \E s \in DOMAIN sessions : WriterStep(s)
    \/ \E s \in DOMAIN sessions : Reader_Failed(s) /\ UNCHANGED arrived

SpecDone ==
    /\ Init /\ [][NextDone]_vars
    /\ WF_vars(HubStep)
    /\ \A s \in 1..MaxSessions : WF_vars(WriterStep(s)) /\ WF_vars(ReaderClosed(s))

\* the goroutine of request p at its send on the Broadcast channel
BroadcastCall(p) == SendMessage_Broadcast(p) /\ UNCHANGED arrived

\* The steps of NextLive with the hub goroutine and the request goroutines
\* that are inside BroadcastMessage scheduled as long as they can run.
SpecCalls ==
    /\ Init /\ [][NextLive]_vars
    /\ WF_vars(HubStep)
    /\ \A p \in Procs : WF_vars(BroadcastCall(p))

\* Concurrent requests from a to b without a key, the websocket clients of
\* b, the hub, and the writers, whose writes succeed.
NextOrder ==
    \/ \E p \in Procs : SendMessage_Start(p, "a", "b", "x", "") /\ UNCHANGED snap
    \/ \E p \in Procs : SendSteps(p)
    \/ HandleWebSocket("b") /\ UNCHANGED arrived
    \/ \E s \in DOMAIN sessions : Hub_Register(s) /\ UNCHANGED arrived
    \/ Hub_Broadcast /\ UNCHANGED arrived
    \/ Hub_Delivered /\ UNCHANGED statusLog
    \/ \E s \in DOMAIN sessions : Writer_Send(s, TRUE)

SpecOrder == Init /\ [][NextOrder]_vars

\* a POST /messages request in either direction between a and b, with or
\* without a key, sent after the hub has taken the previous broadcast
TwoWayRequest ==
    /\ Broadcast = <<>>
    /\ HubRequest

\* Every path to a stored status: sends in both directions between two
\* users who both connect websocket clients, resends with a key, the hub's
\* broadcasts and deliveries, and the frames the clients send.
NextPaths ==
    \/ TwoWayRequest
    \/ \E p \in Procs : SendSteps(p)
    \/ \E u \in ConcUserIDs : HandleWebSocket(u) /\ UNCHANGED arrived
    \/ \E s \in DOMAIN sessions : Hub_Register(s) /\ UNCHANGED arrived
    \/ Hub_Broadcast /\ UNCHANGED arrived
    \/ Hub_Delivered /\ UNCHANGED statusLog
    \/ \E s \in DOMAIN sessions, f \in ReadFrames :
           Reader_Frame(s, f) /\ UNCHANGED statusLog

SpecPaths == Init /\ [][NextPaths]_vars

\* the pairs of the concurrent requests between three users: one pair in
\* both directions and a second chat of the first user
OwnPairs == {<<"a", "b">>, <<"b", "a">>, <<"a", "c">>}

\* Concurrent requests over the HTTP API that write to more than one chat,
\* with or without a key and with no websocket client connected.
NextOwn ==
    \/ \E p \in Procs, sr \in OwnPairs, k \in Keys :
           SendMessage_Start(p, sr[1], sr[2], "x", k) /\ UNCHANGED snap
    \/ \E p \in Procs : SendSteps(p)
    \/ Hub_Broadcast /\ UNCHANGED arrived

SpecOwn == Init /\ [][NextOwn]_vars

(* ------------------------------- claims ------------------------------- *)

\* the unordered pair of a chat's participants
Pair(ch, c) == {ch[c].Participant1, ch[c].Participant2}
\* the ids of the messages of a repository's message lists
IDs(ms) == UNION {{ms[c][i].ID : i \in 1..Len(ms[c])} : c \in DOMAIN ms}
\* request p was answered 201
Answered(p) == req[p].pc = "done" /\ req[p].err = NoErr
SamePair(p, q) == {req[p].senderID, req[p].recipientID} = {req[q].senderID, req[q].recipientID}

\* C1: whatever the interleaving of concurrent SendMessage calls, the
\* repository holds at most one chat per unordered pair of participants.
C1_OneChatPerPair ==
    \A c1 \in DOMAIN chats, c2 \in DOMAIN chats :
        Pair(chats, c1) = Pair(chats, c2) => c1 = c2

\* C2: the key lookup and the insertion are one atomic unit per chat: a chat
\* never holds two messages with the same non-empty idempotency key, and
\* calls with the same key for the same chat return the same message id.
C2_OneMessagePerKey ==
    /\ \A c \in DOMAIN messages :
          \A i \in 1..Len(messages[c]), j \in 1..Len(messages[c]) :
              (messages[c][i].IdempotencyKey # ""
               /\ messages[c][i].IdempotencyKey = messages[c][j].IdempotencyKey)
              => i = j
    /\ \A p \in Procs, q \in Procs :
          (Answered(p) /\ Answered(q) /\ req[p].chat = req[q].chat
           /\ req[p].idempotencyKey # ""
           /\ req[p].idempotencyKey = req[q].idempotencyKey)
          => req[p].msg = req[q].msg

\* C3: two concurrent SendMessage calls between the same two users with
\* distinct non-empty keys, the first calls ever made, both succeed and the
\* chat of the pair then lists a total of two messages.
C3_ConcurrentDistinctKeys ==
    \A p \in Procs, q \in Procs :
        (p # q /\ nReq = 2 /\ req[p].pc = "done" /\ req[q].pc = "done"
         /\ Validate(req[p].senderID, req[p].recipientID, req[p].content) = NoErr
         /\ Validate(req[q].senderID, req[q].recipientID, req[q].content) = NoErr
         /\ SamePair(p, q)
         /\ req[p].idempotencyKey # "" /\ req[q].idempotencyKey # ""
         /\ req[p].idempotencyKey # req[q].idempotencyKey)
        => /\ Answered(p) /\ Answered(q)
           /\ \A c \in FindByParticipants(req[p].senderID, req[p].recipientID) :
                  FindChatMessages(c, 1, 20).total = 2

\* the messages that carried the running request's key in a chat of its pair
\* when the request started
PriorWithKey(p) ==
    UNION {{snap.messages[c][i] : i \in {j \in 1..Len(snap.messages[c]) :
                snap.messages[c][j].IdempotencyKey = req[p].idempotencyKey}} :
           c \in {d \in DOMAIN snap.chats :
                     Pair(snap.chats, d) = {req[p].senderID, req[p].recipientID}}}

\* C4: with one call at a time, a SendMessage with a non-empty key that an
\* earlier call between the same two users used returns the id of the
\* earlier message, whatever its content, and no chat of the pair grows.
C4_SequentialIdempotent ==
    \A p \in Procs :
        (Answered(p) /\ req[p].idempotencyKey # "" /\ PriorWithKey(p) # {})
        => /\ \A m \in PriorWithKey(p) : req[p].msg = m.ID
           /\ \A c \in DOMAIN snap.chats :
                  Pair(snap.chats, c) = {req[p].senderID, req[p].recipientID}
                  => Len(messages[c]) = Len(snap.messages[c])

C4_Witness ==
    /\ Answered(1) /\ req[1].idempotencyKey # ""
    /\ \E m \in PriorWithKey(1) : m.Content # req[1].content /\ m.SenderID # req[1].senderID

\* C5: a SendMessage call answered with a message that was stored before the
\* call started leaves the repository as it was: every message list, every
\* field of every message and every chat's last-activity time.
C5_DedupNoSideEffects ==
    \A p \in Procs :
        (Answered(p) /\ req[p].msg \in IDs(snap.messages))
        => chats = snap.chats /\ messages = snap.messages

C5_Witness ==
    /\ Answered(1) /\ req[1].msg \in IDs(snap.messages)
    /\ \E m \in AllMessages : m.ID = req[1].msg /\ m.Content # req[1].content
    /\ \E c \in DOMAIN chats : chats[c].UpdatedAt < now

\* C6: with one call at a time, sends in either direction between two users
\* use one chat: no pair has two chats, and every answered call's message is
\* in the chat of its pair.
C6_SymmetricChat ==
    /\ \A c1 \in DOMAIN chats, c2 \in DOMAIN chats :
          Pair(chats, c1) = Pair(chats, c2) => c1 = c2
    /\ \A p \in Procs :
          Answered(p)
          => /\ Pair(chats, req[p].chat) = {req[p].senderID, req[p].recipientID}
             /\ \E i \in 1..Len(messages[req[p].chat]) :
                   messages[req[p].chat][i].ID = req[p].msg

C6_Witness ==
    \E c \in DOMAIN messages :
        /\ Len(messages[c]) = 2
        /\ messages[c][1].SenderID = chats[c].Participant1
        /\ messages[c][2].SenderID = chats[c].Participant2

\* C7: an empty sender or recipient id is answered InvalidUser, equal
\* non-empty ids CannotMessageSelf, empty content with valid distinct ids
\* EmptyMessage, each without a message; no other request is rejected.
C7_ValidationErrors ==
    \A p \in Procs :
        LET s == req[p].senderID
            r == req[p].recipientID
        IN req[p].pc = "done" =>
              /\ (s = "" \/ r = "") => (req[p].err = ErrInvalidUser /\ req[p].msg = Nil)
              /\ (s # "" /\ s = r) => (req[p].err = ErrCannotMessageSelf /\ req[p].msg = Nil)
              /\ (s # "" /\ r # "" /\ s # r /\ req[p].content = "")
                     => (req[p].err = ErrEmptyMessage /\ req[p].msg = Nil)

C7_Witness ==
    /\ req[1].pc = "done" /\ req[1].err = ErrInvalidUser
    /\ req[1].senderID = "" /\ req[1].recipientID = ""

\* C8: the step that rejects a request changes neither the repository nor
\* the hub (no Broadcast event is submitted), and the rejected request takes
\* no further step.
C8_RejectedNoEffect ==
    [][\A p \in Procs :
          /\ (req'[p] # req[p] /\ req'[p].pc = "done" /\ req'[p].err # NoErr)
             => UNCHANGED <<chats, messages, Broadcast, Clients, sessions, hub>>
          /\ (req'[p] # req[p] /\ req[p].pc = "done" /\ req[p].err # NoErr)
             => nReq' = nReq + 1]_vars

C8_Witness ==
    /\ req[1].pc = "done" /\ req[1].err = ErrEmptyMessage
    /\ req[1].senderID = "a" /\ req[1].recipientID = "c"
    /\ chats # <<>> /\ FindByParticipants("a", "c") = {}
    /\ Broadcast = <<>>

\* the hub has received the session's registration
Registered(s) == sessions[s].handler = "started"
Current(s) == sessions[s].UserID \in DOMAIN Clients /\ Clients[sessions[s].UserID] = s

\* C9: of the sessions the hub has registered for a user id, only the one in
\* the hub's map can have an open Send channel.
C9_OneOpenSessionPerUser ==
    \A s \in DOMAIN sessions : (Registered(s) /\ ~sessions[s].closed) => Current(s)

C9_Witness ==
    \E s \in DOMAIN sessions, t \in DOMAIN sessions :
        /\ s # t /\ sessions[s].UserID = sessions[t].UserID
        /\ Registered(s) /\ Registered(t)
        /\ sessions[s].closed /\ ~sessions[t].closed /\ Current(t)

\* C10: the step in which the hub receives the registration of session t for
\* a user id that has a session closes that session's Send channel and puts
\* t in the map; a closed Send channel stays closed and takes no payload.
C10_RegisterEvictsFirst ==
    [][/\ \A t \in DOMAIN sessions :
             (sessions[t].handler = "register" /\ sessions'[t].handler = "started"
              /\ sessions[t].UserID \in DOMAIN Clients)
             => /\ sessions'[Clients[sessions[t].UserID]].closed
                /\ Clients'[sessions[t].UserID] = t
       /\ \A s \in DOMAIN sessions :
             sessions[s].closed
             => /\ sessions'[s].closed
                /\ Len(sessions'[s].Send) <= Len(sessions[s].Send)]_vars

C10_Witness ==
    \E s \in DOMAIN sessions, t \in DOMAIN sessions :
        /\ s # t /\ sessions[s].UserID = sessions[t].UserID
        /\ sessions[s].closed /\ ~Current(s) /\ Current(t)
        /\ sessions[s].Send = <<>> /\ sessions[t].Send # <<>>

\* C11: the step in which the hub receives the unregistration of session s
\* removes the mapping of s's user id and closes s's queue if the map holds
\* s, and nothing else; if the map does not hold s (s was evicted by a
\* re-registration or by a full queue) the map and every queue stay as they
\* are, the replacement's included.
C11_UnregisterOnlyCurrent ==
    [][\A s \in DOMAIN sessions :
          (sessions[s].reader = "unregister" /\ sessions'[s].reader = "done")
          => /\ \A t \in DOMAIN sessions \ {s} : sessions'[t] = sessions[t]
             /\ sessions'[s].Send = sessions[s].Send
             /\ IF Current(s)
                THEN /\ Clients' = Delete(sessions[s].UserID)
                     /\ ~sessions[s].closed /\ sessions'[s].closed
                ELSE /\ Clients' = Clients
                     /\ sessions'[s].closed = sessions[s].closed]_vars

C11_Witness ==
    \E s \in DOMAIN sessions, t \in DOMAIN sessions :
        /\ s # t /\ sessions[s].UserID = sessions[t].UserID
        /\ sessions[s].reader = "done" /\ s \notin unregLog
        /\ Current(t) /\ ~sessions[t].closed /\ sessions[t].Send # <<>>

\* the hub receives the oldest event of its Broadcast channel in this step
BroadcastReceived == Broadcast # <<>> /\ Broadcast' = Tail(Broadcast)
\* the session the map holds for the recipient of that event
Recipient == Clients[Head(Broadcast).RecipientID]
\* the status of the message of a repository's message lists with an id
StatusOf(ms, id) ==
    LET c == CHOOSE d \in DOMAIN ms : \E i \in 1..Len(ms[d]) : ms[d][i].ID = id
        i == CHOOSE j \in 1..Len(ms[c]) : ms[c][j].ID = id
    IN ms[c][i].Status

\* C12: the step in which the hub receives a Broadcast whose recipient has
\* no session in the map changes neither the map nor any session's queue
\* nor the repository (the message stays stored with the status it had,
\* sent), and the hub is back at its select: nothing is kept for later.
C12_BroadcastToAbsent ==
    [][(BroadcastReceived /\ Head(Broadcast).RecipientID \notin DOMAIN Clients)
       => /\ UNCHANGED <<Clients, sessions, chats, messages>>
          /\ hub' = HubSelect
          /\ Head(Broadcast).Message \in IDs(messages')]_vars

C12_Witness ==
    /\ Answered(1) /\ Broadcast = <<>> /\ hub = HubSelect
    /\ StatusOf(messages, req[1].msg) = StatusSent
    /\ sessions # <<>>
    /\ \A s \in DOMAIN sessions :
           /\ sessions[s].UserID # req[1].recipientID
           /\ Current(s) /\ ~sessions[s].closed /\ sessions[s].Send = <<>>

\* C13: the step in which the hub receives a Broadcast whose recipient has a
\* session with room in its Send channel appends the marshalled message to
\* that channel and changes no other; the hub's next step, which ends the
\* processing of the event, leaves the stored message delivered.
C13_EnqueueThenDelivered ==
    [][/\ (/\ BroadcastReceived
           /\ Head(Broadcast).RecipientID \in DOMAIN Clients
           /\ Len(sessions[Recipient].Send) < SendCap)
          => /\ sessions' = [sessions EXCEPT ![Recipient].Send =
                                Append(@, Marshal(Deref(Head(Broadcast).Message)))]
             /\ hub' = [pc |-> "status", msg |-> Head(Broadcast).Message]
       /\ (hub.pc = "status" /\ hub' # hub)
          => /\ hub' = HubSelect
             /\ StatusOf(messages', hub.msg) = StatusDelivered]_vars

C13_Witness ==
    \E s \in DOMAIN sessions :
        /\ Current(s) /\ sessions[s].Send # <<>> /\ hub = HubSelect
        /\ sessions[s].Send[1].status = StatusSent
        /\ StatusOf(messages, sessions[s].Send[1].id) = StatusDelivered

\* C14: a Broadcast whose recipient's Send channel is full does not stop the
\* hub: whenever the hub is at its select with a Broadcast waiting it can
\* receive it, and the step that receives one for a full channel closes that
\* channel without adding to it, removes the mapping, leaves the message's
\* status alone and puts the hub back at its select.
C14_FullQueueEvicts ==
    [][/\ (hub.pc = "select" /\ Broadcast # <<>>)
          => ENABLED (Hub_Broadcast /\ UNCHANGED arrived)
       /\ (/\ BroadcastReceived
           /\ Head(Broadcast).RecipientID \in DOMAIN Clients
           /\ Len(sessions[Recipient].Send) >= SendCap)
          => /\ ~sessions[Recipient].closed
             /\ sessions' = [sessions EXCEPT ![Recipient].closed = TRUE]
             /\ Clients' = Delete(Head(Broadcast).RecipientID)
             /\ hub' = HubSelect
             /\ messages' = messages]_vars

C14_Witness ==
    \E s \in DOMAIN sessions :
        /\ sessions[s].closed /\ ~Current(s) /\ sessions[s].reader = "run"
        /\ \A t \in DOMAIN sessions : sessions[t].UserID = sessions[s].UserID => t = s
        /\ Len(sessions[s].Send) = SendCap
        /\ Broadcast = <<>> /\ hub = HubSelect
        /\ \A p \in Procs : req[p].pc \in {"idle", "done"}
        /\ \E m \in AllMessages :
               /\ m.Status = StatusSent
               /\ \A i \in 1..Len(sessions[s].Send) : sessions[s].Send[i].id # m.ID

\* the position of a status in sent -> delivered -> read
Rank(status) ==
    CASE status = StatusSent -> 0
      [] status = StatusDelivered -> 1
      [] status = StatusRead -> 2

\* C15: no step moves a stored message's status backwards along
\* sent -> delivered -> read.
C15_StatusForwardOnly ==
    [][\A id \in IDs(messages) :
          Rank(StatusOf(messages', id)) >= Rank(StatusOf(messages, id))]_vars

\* C16: the hub receives the events of its three channels in the order of
\* their submission: the event a step of the hub takes is the oldest of
\* those submitted and not yet received.
C16_HubFifo ==
    [][Len(arrived') < Len(arrived) => arrived' = Tail(arrived)]_vars

\* C17: a listing of a chat's messages returns the messages of the window
\* [(p-1)*s, min(total, (p-1)*s+s)) of the chat's list, in the list's order,
\* with p = max(page, 1) and s = pageSize if pageSize >= 1, else 20; nothing
\* when (p-1)*s >= total; and always the true total.
C17_PaginationWindow ==
    (list.op = "messages" /\ list.id \in DOMAIN messages)
    => LET all == messages[list.id]
           total == Len(all)
           p == IF list.page < 1 THEN 1 ELSE list.page
           sz == IF list.pageSize >= 1 THEN list.pageSize ELSE 20
           first == (p - 1) * sz
           last == IF first + sz < total THEN first + sz ELSE total
       IN /\ ~list.result.panic
          /\ list.result.total = total
          /\ list.result.data = IF first >= total THEN <<>>
                                 ELSE SubSeq(all, first + 1, last)

\* C18: with the hub goroutine scheduled fairly, a session whose reader has
\* seen a read fail (it is then blocked in, or past, the deferred
\* UnregisterClient for its own session) is eventually out of the hub's map
\* with its Send channel closed.
C18_ReaderFailureUnregisters ==
    \A s \in 1..MaxSessions :
        (s \in DOMAIN sessions /\ sessions[s].reader \in {"unregister", "done"})
        ~> (s \in DOMAIN sessions /\ ~Current(s) /\ sessions[s].closed)

C18_Witness ==
    \E s \in DOMAIN sessions :
        /\ sessions[s].reader = "done" /\ ~Current(s) /\ sessions[s].closed
        /\ \A t \in DOMAIN sessions : sessions[t].UserID = sessions[s].UserID => t = s
        /\ nReq = 0

\* the chats a user takes part in
ChatsOf(userID) ==
    {c \in DOMAIN chats : chats[c].Participant1 = userID \/ chats[c].Participant2 = userID}

\* C19: the response to a listing of a user's chats holds chats of that
\* user only (the user is participant 1 or 2), each once and as stored, in
\* descending order of last activity, with the true total; the page has the
\* length of the window (all the user's chats when the window covers them),
\* at most (page-1)*pageSize chats of the user are more recent than its first
\* chat, and no more chats are older than its last chat than the pages
\* after it hold. Last activity is the time AddMessage set when the chat's
\* last message was appended.
C19_ChatsByLastActivity ==
    [][(list' # list /\ list'.op = "chats")
       => LET r == list'.result
              mine == ChatsOf(list'.id)
              total == Cardinality(mine)
              p == IF list'.page < 1 THEN 1 ELSE list'.page
              sz == IF list'.pageSize >= 1 THEN list'.pageSize ELSE 20
              first == (p - 1) * sz
              last == IF first + sz < total THEN first + sz ELSE total
              n == Len(r.data)
          IN /\ ~r.panic /\ r.total = total
             /\ n = IF first >= total THEN 0 ELSE last - first
             /\ \A i \in 1..n :
                    /\ r.data[i].ID \in mine
                    /\ r.data[i] = [ID |-> r.data[i].ID] @@ chats[r.data[i].ID]
             /\ \A i \in 1..n, j \in 1..n :
                    /\ r.data[i].ID = r.data[j].ID => i = j
                    /\ i < j => r.data[i].UpdatedAt >= r.data[j].UpdatedAt
             /\ n > 0 =>
                    /\ Cardinality({c \in mine :
                           chats[c].UpdatedAt > r.data[1].UpdatedAt}) <= first
                    /\ Cardinality({c \in mine :
                           chats[c].UpdatedAt < r.data[n].UpdatedAt}) <= total - last]_vars

C19_Witness ==
    /\ list.op = "chats" /\ Len(list.result.data) = 2
    /\ list.result.data[1].Participant2 = list.id
    /\ list.result.data[2].Participant1 = list.id
    /\ list.result.data[1].UpdatedAt > list.result.data[2].UpdatedAt
    /\ \E i \in 1..Len(messages[list.result.data[1].ID]) :
           messages[list.result.data[1].ID][i].ID > messages[list.result.data[2].ID][1].ID

\* C20: a request with two distinct non-empty ids and non-empty content
\* succeeds whether or not the user repository knows the ids, and once it is
\* answered every listing of the sender's chats shows a chat whose
\* participants are the sender and the recipient.
C20_NoUserExistenceCheck ==
    \A p \in Procs :
        (/\ req[p].pc = "done"
         /\ req[p].senderID # "" /\ req[p].recipientID # ""
         /\ req[p].senderID # req[p].recipientID /\ req[p].content # "")
        => /\ req[p].err = NoErr
           /\ \A r \in FindUserChats(req[p].senderID, 1, 0) :
                  \E i \in 1..Len(r.data) :
                      {r.data[i].Participant1, r.data[i].Participant2}
                          = {req[p].senderID, req[p].recipientID}

C20_Witness ==
    /\ Answered(1) /\ users # {}
    /\ req[1].senderID \notin users /\ req[1].recipientID \notin users
    /\ list.op = "chats" /\ list.id = req[1].senderID
    /\ \E i \in 1..Len(list.result.data) :
           /\ list.result.data[i].Participant1 = req[1].senderID
           /\ list.result.data[i].Participant2 = req[1].recipientID

\* C21: the delivered update is fire-and-forget: while the write of a
\* delivered status to the store is pending the hub goroutine holds no lock
\* of the hub and is free to receive the next event of its Broadcast channel.
C21_DeliveredAsync ==
    hub.pc = "status"
    => /\ Mutex = "unlocked"
       /\ Broadcast # <<>> => ENABLED (Hub_Broadcast /\ UNCHANGED arrived)

\* the message lists ms with the status of the message with the id set
WithStatus(ms, id, status) ==
    [c \in DOMAIN ms |->
        [i \in 1..Len(ms[c]) |->
            IF ms[c][i].ID = id
            THEN [ID |-> id, ChatID |-> ms[c][i].ChatID, SenderID |-> ms[c][i].SenderID,
                  Content |-> ms[c][i].Content, Status |-> status,
                  Timestamp |-> ms[c][i].Timestamp,
                  IdempotencyKey |-> ms[c][i].IdempotencyKey]
            ELSE ms[c][i]]]
\* the step is a call of UpdateMessageStatus, by the hub or by a reader
StatusCall == statusLog' # statusLog /\ (statusLog'.op = "frame" => statusLog'.called)

\* C22: a call of UpdateMessageStatus with an id that no stored message has
\* returns ErrMessageNotFound and leaves every chat and every message as it
\* was; a call with the id of a stored message returns no error and changes
\* the status of that message and nothing else in the repository.
C22_StatusUpdateEffect ==
    [][StatusCall
       => /\ chats' = chats
          /\ IF statusLog'.id \in IDs(messages)
             THEN /\ statusLog'.err = NoErr
                  /\ messages' = WithStatus(messages, statusLog'.id, statusLog'.status)
                  /\ Cardinality({m \in AllMessages : m.ID = statusLog'.id}) = 1
             ELSE /\ statusLog'.err = ErrMessageNotFound
                  /\ messages' = messages]_vars

C22_Witness ==
    /\ statusLog.op = "frame" /\ statusLog.called
    /\ statusLog.err = ErrMessageNotFound
    /\ statusLog.id \notin IDs(messages)
    /\ \E c \in DOMAIN messages :
           /\ Len(messages[c]) = 2
           /\ messages[c][1].Status = StatusRead
           /\ messages[c][2].Status = StatusSent

\* C23: no step removes a chat or changes its participants, and no step
\* removes a stored message, moves it in its chat's list or changes its id,
\* chat id, sender or content.
C23_MessagesImmutable ==
    [][\A c \in DOMAIN chats :
          /\ c \in DOMAIN chats'
          /\ chats'[c].Participant1 = chats[c].Participant1
          /\ chats'[c].Participant2 = chats[c].Participant2
          /\ c \in DOMAIN messages'
          /\ Len(messages'[c]) >= Len(messages[c])
          /\ \A i \in 1..Len(messages[c]) :
                 /\ messages'[c][i].ID = messages[c][i].ID
                 /\ messages'[c][i].ChatID = messages[c][i].ChatID
                 /\ messages'[c][i].SenderID = messages[c][i].SenderID
                 /\ messages'[c][i].Content = messages[c][i].Content]_vars

C23_Witness ==
    /\ Answered(1) /\ req[1].idempotencyKey # "" /\ Broadcast = <<>>
    /\ nReq = 2 /\ hub = HubSelect
    /\ list.op = "messages" /\ list.result.total = 1
    /\ list.result.data[1].Status = StatusSent
    /\ \E c \in DOMAIN messages :
           /\ Len(messages[c]) = 1
           /\ messages[c][1].ID = req[1].msg
           /\ messages[c][1].Status = StatusRead
    /\ \E s \in DOMAIN sessions : Len(sessions[s].Send) = 1

\* a session whose two goroutines have returned and whose connection is closed
Finished(s) ==
    sessions[s].writer = "done" /\ sessions[s].conn = "closed" /\ sessions[s].reader = "done"

\* C24: with the hub, the writers and the readers scheduled fairly, every
\* session whose Send channel was closed (by a re-registration, by a full
\* channel or by its own unregistration) ends with its writer returned, its
\* connection closed and its reader returned from UnregisterClient. A closed
\* channel stays closed and a finished session stays finished, so this is:
\* from some moment on every closed session is finished.
C24_ClosedSessionEnds ==
    <>[](\A s \in DOMAIN sessions : sessions[s].closed => Finished(s))

C24_Witness ==
    /\ Len(sessions) >= 2
    /\ \A s \in DOMAIN sessions : sessions[s].closed /\ Finished(s)
    /\ \E m \in AllMessages : m.Status = StatusDelivered
    /\ \E m \in AllMessages : m.Status = StatusSent

\* C25: the step in which a reader takes an inbound frame changes nothing
\* but the status of a stored message: a frame that is a JSON envelope of
\* type mark_read carrying the id of a stored message leaves that message
\* read; any other frame (no JSON, another type, an unknown id) leaves the
\* repository as it was; and in every case the hub's map, every session
\* (the reader's included, which goes on reading) and the hub stay as they
\* were.
C25_InboundFrames ==
    [][(statusLog' # statusLog /\ statusLog'.op = "frame")
       => LET f == statusLog'.frame
          IN /\ UNCHANGED <<chats, Clients, sessions, Broadcast, hub>>
             /\ messages' = IF /\ f.json /\ f.type = "mark_read"
                               /\ f.message_id \in IDs(messages)
                            THEN WithStatus(messages, f.message_id, StatusRead)
                            ELSE messages]_vars

C25_Witness ==
    /\ statusLog.op = "frame" /\ statusLog.frame.json /\ statusLog.frame.type = "typing"
    /\ \E m \in AllMessages : m.ID = statusLog.frame.message_id /\ m.Status = StatusDelivered
    /\ \E s \in DOMAIN sessions :
           Current(s) /\ sessions[s].reader = "run" /\ sessions[s].conn = "open"

\* the chats of the running request's pair when the request started
PriorChats(p) ==
    {c \in DOMAIN snap.chats : Pair(snap.chats, c) = {req[p].senderID, req[p].recipientID}}

\* C26: with one call at a time, an answered SendMessage whose key is empty,
\* or whose key no message of the chat of its pair carried when it started
\* (whatever the messages of other chats carried), has appended one new
\* message with its content and key to the chat of its pair and is answered
\* with it; one whose non-empty key a message of that chat carried, sent by
\* either participant, is answered with that message and appends nothing.
C26_KeyScopedToChat ==
    \A p \in Procs :
        Answered(p) =>
            IF req[p].idempotencyKey # "" /\ PriorWithKey(p) # {}
            THEN /\ req[p].msg \in {m.ID : m \in PriorWithKey(p)}
                 /\ messages = snap.messages
            ELSE /\ req[p].msg \notin IDs(snap.messages)
                 /\ \E c \in DOMAIN chats :
                        /\ Pair(chats, c) = {req[p].senderID, req[p].recipientID}
                        /\ PriorChats(p) \subseteq {c}
                        /\ LET old == IF c \in DOMAIN snap.messages
                                      THEN snap.messages[c] ELSE <<>>
                               new == messages[c][Len(messages[c])]
                           IN /\ Len(messages[c]) = Len(old) + 1
                              /\ SubSeq(messages[c], 1, Len(old)) = old
                              /\ new.ID = req[p].msg
                              /\ new.SenderID = req[p].senderID
                              /\ new.Content = req[p].content
                              /\ new.IdempotencyKey = req[p].idempotencyKey
                        /\ \A d \in DOMAIN snap.messages \ {c} :
                               messages[d] = snap.messages[d]

C26_Witness ==
    /\ Answered(1) /\ req[1].idempotencyKey # ""
    /\ \E x \in DOMAIN messages, y \in DOMAIN messages :
           /\ x # y /\ Len(messages[x]) = 1 /\ Len(messages[y]) = 1
           /\ messages[x][1].ID = req[1].msg
           /\ messages[y][1].ID \in IDs(snap.messages)
           /\ messages[y][1].IdempotencyKey = req[1].idempotencyKey
           /\ messages[x][1].IdempotencyKey = req[1].idempotencyKey

\* C27: the hub never closes a Send channel that is closed and never sends
\* on one (either would panic): every client the map holds has an open
\* Send channel, whatever the order of registrations, unregistrations of
\* current and of evicted clients, and broadcasts.
C27_NoCloseOrSendOnClosed ==
    /\ hub.pc # "panic"
    /\ \A u \in DOMAIN Clients : ~sessions[Clients[u]].closed

C27_Witness ==
    \E s \in DOMAIN sessions, t \in DOMAIN sessions :
        /\ s # t /\ sessions[s].UserID = sessions[t].UserID
        /\ sessions[s].closed /\ sessions[s].reader = "done" /\ Len(sessions[s].Send) = SendCap
        /\ Current(t) /\ ~sessions[t].closed /\ sessions[t].Send # <<>>
        /\ Broadcast = <<>> /\ hub = HubSelect

\* a goroutine is inside RegisterClient, UnregisterClient or BroadcastMessage
PendingCall ==
    \/ \E s \in DOMAIN sessions : sessions[s].handler = "register"
    \/ \E s \in DOMAIN sessions : sessions[s].reader = "unregister"
    \/ \E p \in Procs : req[p].pc = "broadcast"

\* C28: with the hub goroutine running, every call of RegisterClient,
\* UnregisterClient and BroadcastMessage returns. The calls of a behaviour
\* are finitely many, so this is: from some moment on no call is pending.
C28_CallsReturn == <>[]~PendingCall

C28_Witness ==
    /\ hub.pc = "status" /\ Mutex = "RLock"
    /\ req[1].pc = "add"
    /\ \E s \in DOMAIN sessions : sessions[s].reader = "unregister"
    /\ \E s \in DOMAIN sessions : sessions[s].handler = "register"

\* C29: no stored message is put on a Send channel twice, so a resend that
\* its key deduplicates enqueues nothing. Delivered is the status the hub
\* writes after it has enqueued a message, and nothing else writes it: a
\* payload marshalled from a message that is delivered is a second enqueue.
C29_EnqueuedOnce ==
    [][\A s \in DOMAIN sessions :
          Len(sessions'[s].Send) > Len(sessions[s].Send)
          => sessions'[s].Send[Len(sessions'[s].Send)].status # StatusDelivered]_vars

\* C30: a session is sent the messages of a chat in the order of the chat's
\* list: when a message is put on the Send channel of the only session ever
\* registered, no message that comes after it in its chat's list has been
\* put there before. (Delivered is written by the hub after an enqueue and
\* by nothing else in these runs, so a delivered message was enqueued, and
\* on that session.)
C30_EnqueuedInListOrder ==
    [][\A s \in DOMAIN sessions :
          (/\ Len(sessions'[s].Send) > Len(sessions[s].Send)
           /\ \A t \in DOMAIN sessions \ {s} : ~Registered(t))
          => LET id == sessions'[s].Send[Len(sessions'[s].Send)].id
             IN \A c \in DOMAIN messages :
                    \A i \in 1..Len(messages[c]), j \in 1..Len(messages[c]) :
                        (i < j /\ messages[c][i].ID = id)
                        => messages[c][j].Status # StatusDelivered]_vars

\* the user a stored message is for: the participant of its chat who is
\* not its sender
RecipientOf(id) ==
    LET m == Deref(id)
        ch == chats[m.ChatID]
    IN IF ch.Participant1 = m.SenderID THEN ch.Participant2 ELSE ch.Participant1
\* the message with this id is stored in this step with a status it did
\* not have before the step
Becomes(id, status) ==
    /\ id \in IDs(messages')
    /\ StatusOf(messages', id) = status
    /\ id \in IDs(messages) => StatusOf(messages, id) # status

\* C31: a stored message gets the status delivered only in the hub's step
\* of line 95 for that message, and the hub comes to that step for a message
\* only by putting its payload on the Send channel of a registered session
\* of the user the message is for; no request, listing or frame writes
\* delivered.
C31_DeliveredOnlyAfterEnqueue ==
    [][/\ \A id \in IDs(messages') :
              Becomes(id, StatusDelivered) => hub.pc = "status" /\ hub.msg = id
       /\ (hub.pc # "status" /\ hub'.pc = "status")
          => \E s \in DOMAIN sessions :
                 /\ Registered(s)
                 /\ sessions[s].UserID = RecipientOf(hub'.msg)
                 /\ sessions'[s].Send =
                        Append(sessions[s].Send, Marshal(Deref(hub'.msg)))]_vars

\* session s can take an inbound frame: it was registered, its reader runs
\* and its connection is open
Reading(s) == Registered(s) /\ sessions[s].reader = "run" /\ sessions[s].conn = "open"

\* C32: a stored message gets the status read only in a step in which a
\* session of the user the message is for can take a frame, and only from
\* the status delivered: no frame of another user's session and no frame
\* for a message that is still sent makes it read.
C32_ReadOnlyByRecipient ==
    [][\A id \in IDs(messages) :
          Becomes(id, StatusRead)
          => /\ StatusOf(messages, id) = StatusDelivered
             /\ \E s \in DOMAIN sessions :
                    Reading(s) /\ sessions[s].UserID = RecipientOf(id)]_vars

\* C33: the checks run in the order empty id, self-message, empty content,
\* and the first that fails decides the answer: two empty ids are answered
\* InvalidUser and not CannotMessageSelf, an empty id with empty content
\* InvalidUser, and equal non-empty ids with empty content CannotMessageSelf.
C33_ValidationOrder ==
    \A p \in Procs :
        LET s == req[p].senderID
            r == req[p].recipientID
            c == req[p].content
        IN req[p].pc = "done" =>
              /\ (s = "" /\ r = "") => req[p].err = ErrInvalidUser
              /\ ((s = "" \/ r = "") /\ c = "") => req[p].err = ErrInvalidUser
              /\ (s # "" /\ s = r /\ c = "") => req[p].err = ErrCannotMessageSelf

\* a message to oneself with empty content was answered
C33_Witness ==
    /\ req[1].pc = "done" /\ req[1].err = ErrCannotMessageSelf
    /\ req[1].senderID = "a" /\ req[1].recipientID = "a" /\ req[1].content = ""

\* C34: every stored message is in the list of the chat it names, that chat
\* exists and the sender of the message is one of its two participants; and
\* the chat ids that have a message list are the ids of the chats.
C34_MessagesBelongToChats ==
    /\ DOMAIN messages = DOMAIN chats
    /\ \A c \in DOMAIN messages :
           \A i \in 1..Len(messages[c]) :
               /\ messages[c][i].ChatID = c
               /\ messages[c][i].SenderID \in Pair(chats, c)

\* a chat holds a message from each of its participants
C34_Witness ==
    \E c \in DOMAIN messages :
        {messages[c][i].SenderID : i \in 1..Len(messages[c])} = Pair(chats, c)

=============================================================================
